---- MODULE Spec2Model ----
(***************************************************************************)
(* Model of the component server of the KUSANAGI Go SDK: server.start (the *)
(* ZMQ reactor with its socket handler and its channel handler),           *)
(* server.startMessageListener (the listener goroutine and the goroutine   *)
(* it starts per request), pipeOutput and createErrorRespose.              *)
(*                                                                         *)
(* Two specifications share the state:                                     *)
(*   Spec          the whole program: reactor, signal goroutine, listener. *)
(*                 The listener's receive is `msg, closed := <-msgc`; the  *)
(*                 second value of a Go receive is TRUE when a value was   *)
(*                 delivered, so `if closed { break }` leaves the loop on  *)
(*                 the first delivered message.  FairSpec adds the weak    *)
(*                 fairness of the goroutines.                             *)
(*   SpecDispatch  the body of the listener's loop (check, schemas, the    *)
(*                 per-request goroutine), the processor, pipeOutput and   *)
(*                 the reactor's channel handler, run on messages drawn    *)
(*                 from Messages.  FairSpecDispatch adds the weak fairness *)
(*                 of its goroutines.                                      *)
(* A frame ([]byte) is a sequence of tokens, a multipart message is a      *)
(* sequence of frames, nil is the empty sequence.                          *)
(***************************************************************************)
EXTENDS Naturals, Sequences, FiniteSets

\* Number of socket events the reactor's socket handler is run for.
MaxMsgs == 4

\* Number of messages the listener's loop body is run for.
MaxReqs == 2

\* Capacity of msgc (make(chan requestMsg, 1000)), scaled down.
MsgcCap == 2

\* Capacity of resc and of the pipe (make(chan requestOutput, 1000)), scaled down.
RescCap == 1

EmptyFrame == << >>

NilMsg == << >>

NoOutput == [idx |-> 0, id |-> << >>, err |-> << >>, response |-> << >>]

NoState == [id |-> << >>, action |-> << >>, schemas |-> << >>]

\* s.input.GetComponentTitle()
Title == "svc"

\* The callbacks registered in the component.
Registry == { <<"act">> }

\* Multipart messages a peer sends: [identity, empty, request id, action, schemas?, payload?].
Messages ==
    { << <<"p1">>, EmptyFrame, <<"r1">>, <<"act">> >>,
      << <<"p2">>, EmptyFrame, <<"r2">>, <<"act">>, <<"sA">>, <<"cmd">> >>,
      << <<"p1">>, EmptyFrame, <<"r2">>, <<"nope">> >>,
      << <<"p2">>, EmptyFrame, <<"r1">>, <<"act">>, EmptyFrame, <<"junk">> >>,
      << <<"p2">>, EmptyFrame, <<"r2">>, <<"act">>, <<"sBad">> >>,
      << <<"p1">>, EmptyFrame, <<"r1">> >>,
      << <<"p2">> >> }

VARIABLES
    termed,      \* zctx.Term() has been called by the signal goroutine
    reactorPc,   \* "poll", "send" (socket handler at msgc <- msg), "returned"
    pending,     \* msg of the running socket handler
    rx,          \* results of socket.RecvMessageBytes, in order
    msgc,        \* buffer of the messages channel
    msgcClosed,  \* close(msgc) has run
    listenerPc,  \* "recv" (at <-msgc), "exited" (after break)
    startResult, \* "running", or the value start() returned
    acc,         \* messages the listener's loop body has been run for
    schemas,     \* the listener's schemas variable
    logs,        \* log entries written
    rpc,         \* per-request goroutine: "none", "start", "select", "put", "done"
    rstate,      \* state of the request
    rout,        \* output the per-request goroutine is sending on resc
    hpc,         \* processor: "none", "run", "send" (at outc <- output), "done"
    hout,        \* output the processor sends on outc
    outcClosed,  \* close(outc) has run
    timedOut,    \* the select took <-ctx.Done()
    invoked,     \* number of times go s.processor(...) ran for the request
    enq,         \* number of outputs of the request sent on resc
    resc,        \* buffer of the responses channel
    pipeHold,    \* output held by the pipeOutput goroutine
    pipe,        \* buffer of the pipe channel
    sent,        \* per request, the messages socket.SendMessage sent
    delivered,   \* per request, the outputs the channel handler was run for
    crashed      \* the process died of a panic

vars == << termed, reactorPc, pending, rx, msgc, msgcClosed, listenerPc,
           startResult, acc, schemas, logs, rpc, rstate, rout, hpc, hout,
           outcClosed, timedOut, invoked, enq, resc, pipeHold, pipe, sent,
           delivered, crashed >>

reactorVars == << reactorPc, pending, rx, msgc, msgcClosed, startResult >>

listenerVars == << listenerPc, acc, schemas >>

routineVars == << rpc, rstate, rout, outcClosed, timedOut, invoked, enq >>

handlerVars == << hpc, hout >>

outputVars == << resc, pipeHold, pipe, sent, delivered >>

Reqs == 1..MaxReqs

Init ==
    /\ termed = FALSE
    /\ reactorPc = "poll"
    /\ pending = NilMsg
    /\ rx = << >>
    /\ msgc = << >>
    /\ msgcClosed = FALSE
    /\ listenerPc = "recv"
    /\ startResult = "running"
    /\ acc = << >>
    /\ schemas = << >>
    /\ logs = {}
    /\ rpc = [i \in Reqs |-> "none"]
    /\ rstate = [i \in Reqs |-> NoState]
    /\ rout = [i \in Reqs |-> NoOutput]
    /\ hpc = [i \in Reqs |-> "none"]
    /\ hout = [i \in Reqs |-> NoOutput]
    /\ outcClosed = [i \in Reqs |-> FALSE]
    /\ timedOut = [i \in Reqs |-> FALSE]
    /\ invoked = [i \in Reqs |-> 0]
    /\ enq = [i \in Reqs |-> 0]
    /\ resc = << >>
    /\ pipeHold = NoOutput
    /\ pipe = << >>
    /\ sent = [i \in Reqs |-> << >>]
    /\ delivered = [i \in Reqs |-> 0]
    /\ crashed = FALSE

(***************************************************************************)
(* requestMsg, the component and the codec.                                *)
(***************************************************************************)

\* msg.check(): the message has the frames identity, empty, request id, action.
check(msg) == Len(msg) >= 4

getRequestID(msg) == IF Len(msg) >= 3 THEN msg[3] ELSE EmptyFrame

getAction(msg) == IF Len(msg) >= 4 THEN msg[4] ELSE EmptyFrame

\* nil when the message has no schemas frame, or an empty one.
getSchemas(msg) == IF Len(msg) >= 5 THEN msg[5] ELSE EmptyFrame

\* nil when the message has no payload frame, or an empty one.
getPayload(msg) == IF Len(msg) >= 6 THEN msg[6] ELSE EmptyFrame

hasCallback(action) == action \in Registry

\* lib.Unpack fails on a blob that is no encoding of the expected value.
UnpackFails(blob) == blob \in { <<"junk">>, <<"sBad">> }

\* The value lib.Unpack decodes a blob into.
Unpacked(blob) == <<"map">> \o blob

\* lib.Pack of a reply whose Error.Message is message.
PackErrorReply(message) == <<"error">> \o message

(***************************************************************************)
(* server.start: the signal goroutine and the reactor's socket handler.    *)
(***************************************************************************)

\* The signal goroutine: a termination signal arrives, zctx.Term().
Signal ==
    /\ ~crashed
    /\ ~termed
    /\ termed' = TRUE
    /\ UNCHANGED << reactorVars, listenerVars, logs, routineVars, handlerVars,
                    outputVars, crashed >>

\* The socket handler up to its send: RecvMessageBytes delivers a message.
SocketRecv ==
    /\ ~crashed
    /\ reactorPc = "poll"
    /\ ~termed
    /\ Len(rx) < MaxMsgs
    /\ \E m \in Messages :
          /\ rx' = Append(rx, m)
          /\ pending' = m
    /\ reactorPc' = "send"
    /\ UNCHANGED << termed, msgc, msgcClosed, startResult, listenerVars, logs,
                    routineVars, handlerVars, outputVars, crashed >>

\* The socket handler up to its send: RecvMessageBytes fails with an error
\* other than ETERM; the error is logged and the handler goes on with msg nil.
SocketRecvError ==
    /\ ~crashed
    /\ reactorPc = "poll"
    /\ ~termed
    /\ Len(rx) < MaxMsgs
    /\ rx' = Append(rx, NilMsg)
    /\ pending' = NilMsg
    /\ logs' = logs \cup { <<"error", "read", Len(rx) + 1>> }
    /\ reactorPc' = "send"
    /\ UNCHANGED << termed, msgc, msgcClosed, startResult, listenerVars,
                    routineVars, handlerVars, outputVars, crashed >>

\* msgc <- msg; return nil.  The send waits while the buffer is full.
SocketSend ==
    /\ ~crashed
    /\ reactorPc = "send"
    /\ Len(msgc) < MsgcCap
    /\ msgc' = Append(msgc, pending)
    /\ pending' = NilMsg
    /\ reactorPc' = "poll"
    /\ UNCHANGED << termed, rx, msgcClosed, startResult, listenerVars, logs,
                    routineVars, handlerVars, outputVars, crashed >>

\* What start() does once reactor.Run has returned: return nil, and the
\* deferred close(msgc).
StartReturns ==
    /\ reactorPc' = "returned"
    /\ startResult' = "nil"
    /\ msgcClosed' = TRUE

\* The context is terminated: the poll (or the socket handler's receive)
\* fails with ETERM and reactor.Run returns.
ReactorExit ==
    /\ ~crashed
    /\ reactorPc = "poll"
    /\ termed
    /\ StartReturns
    /\ UNCHANGED << termed, pending, rx, msgc, listenerVars, logs, routineVars,
                    handlerVars, outputVars, crashed >>

(***************************************************************************)
(* server.startMessageListener: the listener goroutine.                    *)
(***************************************************************************)

\* Mutant of LoopBody: the unpacked schemas are added to the ones there are.
LoopBody_Accumulates(msg) ==
    LET i == Len(acc) + 1
        v == getSchemas(msg)
    IN  /\ Len(acc) < MaxReqs
        /\ acc' = Append(acc, msg)
        /\ IF ~check(msg)
           THEN /\ logs' = logs \cup { <<"critical", "check", i>> }
                /\ UNCHANGED << schemas, rpc >>
           ELSE /\ IF v # EmptyFrame
                   THEN IF UnpackFails(v)
                        THEN /\ logs' = logs \cup { <<"error", "schemas", i>> }
                             /\ UNCHANGED schemas
                        ELSE /\ schemas' = schemas \o Unpacked(v)
                             /\ UNCHANGED logs
                   ELSE UNCHANGED << schemas, logs >>
                /\ rpc' = [rpc EXCEPT ![i] = "start"]

\* Mutant of LoopBody: the result of msg.check() is logged but the loop goes on
\* with the message.
LoopBody_NoContinue(msg) ==
    LET i == Len(acc) + 1
    IN  /\ Len(acc) < MaxReqs
        /\ acc' = Append(acc, msg)
        /\ logs' = IF check(msg) THEN logs ELSE logs \cup { <<"critical", "check", i>> }
        /\ UNCHANGED schemas
        /\ rpc' = [rpc EXCEPT ![i] = "start"]

\* The body of the loop after the receive, for the message msg: check,
\* schemas, go func().  The request gets the next index.
LoopBody(msg) ==
    LET i == Len(acc) + 1
        v == getSchemas(msg)
    IN  /\ Len(acc) < MaxReqs
        /\ acc' = Append(acc, msg)
        /\ IF ~check(msg)
           THEN /\ logs' = logs \cup { <<"critical", "check", i>> }
                /\ UNCHANGED << schemas, rpc >>
           ELSE /\ IF v # EmptyFrame
                   THEN IF UnpackFails(v)
                        THEN /\ logs' = logs \cup { <<"error", "schemas", i>> }
                             /\ UNCHANGED schemas
                        ELSE /\ schemas' = Unpacked(v)
                             /\ UNCHANGED logs
                   ELSE UNCHANGED << schemas, logs >>
                /\ rpc' = [rpc EXCEPT ![i] = "start"]

\* One turn of the loop: msg, closed := <-msgc has given (msg, closed).
ListenerStep(msg, closed) ==
    IF closed
    THEN /\ listenerPc' = "exited"
         /\ UNCHANGED << acc, schemas, logs, rpc >>
    ELSE /\ LoopBody(msg)
         /\ UNCHANGED listenerPc

\* The receive delivers a message a send put on msgc: its second value is TRUE.
ListenerRecv ==
    /\ ~crashed
    /\ listenerPc = "recv"
    /\ msgc # << >>
    /\ msgc' = Tail(msgc)
    /\ ListenerStep(Head(msgc), TRUE)
    /\ UNCHANGED << termed, reactorPc, pending, rx, msgcClosed, startResult,
                    rstate, rout, outcClosed, timedOut, invoked, enq,
                    handlerVars, outputVars, crashed >>

\* The receive on the closed and empty msgc: the zero value, and FALSE.
ListenerRecvClosed ==
    /\ ~crashed
    /\ listenerPc = "recv"
    /\ msgc = << >>
    /\ msgcClosed
    /\ ListenerStep(NilMsg, FALSE)
    /\ UNCHANGED << termed, reactorVars, rstate, rout, outcClosed, timedOut,
                    invoked, enq, handlerVars, outputVars, crashed >>

Next ==
    \/ Signal
    \/ SocketRecv
    \/ SocketRecvError
    \/ SocketSend
    \/ ReactorExit
    \/ ListenerRecv
    \/ ListenerRecvClosed

Spec == Init /\ [][Next]_vars

(***************************************************************************)
(* server.startMessageListener: the goroutine started per request, and the *)
(* processor it starts.                                                    *)
(***************************************************************************)

\* fmt.Errorf(`Invalid action for component %s: "%s"`, title, action)
InvalidActionError(title, action) ==
    <<"Invalid action for component", title>> \o action

\* fmt.Errorf(`Invalid payload for component %s: "%s"`, title, action)
InvalidPayloadError(title, action) ==
    <<"Invalid payload for component", title>> \o action

\* Mutant of DispatchOutcome: the action is not looked up.
DispatchOutcome_NoLookup(msg) ==
    IF getPayload(msg) # EmptyFrame /\ UnpackFails(getPayload(msg))
    THEN "payload"
    ELSE "run"

\* The two checks before the processor is started: "action" when the action
\* has no callback, "payload" when the payload is there and does not unpack,
\* "run" when the goroutine goes on to start the processor.
DispatchOutcome(msg) ==
    IF ~hasCallback(getAction(msg))
    THEN "action"
    ELSE IF getPayload(msg) # EmptyFrame /\ UnpackFails(getPayload(msg))
         THEN "payload"
         ELSE "run"

\* Mutant of AfterStart: the goroutine runs its body again.
AfterStart_Again == "start"

\* Where the goroutine is after go s.processor(...): at the select.
AfterStart == "select"

\* The goroutine from its start to its first channel operation: it builds the
\* state (reading the listener's schemas variable), and either has an error
\* output to send on resc or starts the processor and waits in the select.
RoutineDispatch(i) ==
    LET msg == acc[i]
        rid == getRequestID(msg)
        action == getAction(msg)
        st == [id |-> rid, action |-> action, schemas |-> schemas]
        what == DispatchOutcome(msg)
        failed(e) == [idx |-> i, id |-> rid, err |-> e, response |-> << >>]
    IN  /\ ~crashed
        /\ rpc[i] = "start"
        /\ rstate' = [rstate EXCEPT ![i] = st]
        /\ IF what = "action"
           THEN /\ rout' = [rout EXCEPT ![i] = failed(InvalidActionError(Title, action))]
                /\ rpc' = [rpc EXCEPT ![i] = "put"]
                /\ UNCHANGED << logs, hpc, invoked >>
           ELSE IF what = "payload"
           THEN /\ rout' = [rout EXCEPT ![i] = failed(InvalidPayloadError(Title, action))]
                /\ rpc' = [rpc EXCEPT ![i] = "put"]
                /\ logs' = logs \cup { <<"critical", "payload", i>> }
                /\ UNCHANGED << hpc, invoked >>
           ELSE /\ hpc' = [hpc EXCEPT ![i] = "run"]
                /\ invoked' = [invoked EXCEPT ![i] = @ + 1]
                /\ rpc' = [rpc EXCEPT ![i] = AfterStart]
                /\ UNCHANGED << rout, logs >>
        /\ UNCHANGED << termed, reactorVars, listenerVars, hout, outcClosed,
                        timedOut, enq, outputVars, crashed >>

\* select, case output := <-outc: the processor is at its send on outc.
RoutineRecv(i) ==
    /\ ~crashed
    /\ rpc[i] = "select"
    /\ hpc[i] = "send"
    /\ ~outcClosed[i]
    /\ rout' = [rout EXCEPT ![i] = hout[i]]
    /\ hpc' = [hpc EXCEPT ![i] = "done"]
    /\ rpc' = [rpc EXCEPT ![i] = "put"]
    /\ UNCHANGED << termed, reactorVars, listenerVars, logs, rstate, hout,
                    outcClosed, timedOut, invoked, enq, outputVars, crashed >>

\* Mutant of RoutineTimeout: the timeout is reported as an error output.
RoutineTimeout_Reports(i) ==
    /\ ~crashed
    /\ rpc[i] = "select"
    /\ timedOut' = [timedOut EXCEPT ![i] = TRUE]
    /\ logs' = logs \cup { <<"warning", "timeout", i>> }
    /\ rout' = [rout EXCEPT ![i] =
                   [idx |-> i, id |-> rstate[i].id, err |-> <<"timeout">>, response |-> << >>]]
    /\ rpc' = [rpc EXCEPT ![i] = "put"]
    /\ UNCHANGED << termed, reactorVars, listenerVars, rstate, outcClosed,
                    invoked, enq, handlerVars, outputVars, crashed >>

\* select, case <-ctx.Done(): the warning, return, and the deferred close(outc).
RoutineTimeout(i) ==
    /\ ~crashed
    /\ rpc[i] = "select"
    /\ timedOut' = [timedOut EXCEPT ![i] = TRUE]
    /\ logs' = logs \cup { <<"warning", "timeout", i>> }
    /\ outcClosed' = [outcClosed EXCEPT ![i] = TRUE]
    /\ rpc' = [rpc EXCEPT ![i] = "done"]
    /\ UNCHANGED << termed, reactorVars, listenerVars, rstate, rout, invoked,
                    enq, handlerVars, outputVars, crashed >>

\* resc <- output and return; close(outc) is deferred once outc was made.
\* The send waits while the buffer of resc is full.
RoutinePut(i) ==
    /\ ~crashed
    /\ rpc[i] = "put"
    /\ Len(resc) < RescCap
    /\ resc' = Append(resc, rout[i])
    /\ enq' = [enq EXCEPT ![i] = @ + 1]
    /\ outcClosed' = [outcClosed EXCEPT ![i] = (hpc[i] # "none")]
    /\ rpc' = [rpc EXCEPT ![i] = "done"]
    /\ UNCHANGED << termed, reactorVars, listenerVars, logs, rstate, rout,
                    timedOut, invoked, handlerVars, pipeHold, pipe, sent,
                    delivered, crashed >>

\* The reply a processor declares for the request of state st.
HandlerResponse(st) == << st.id, EmptyFrame, <<"reply">> \o st.action >>

\* The processor reaches its one write to its sink: outc <- output, with the
\* reply it declares, or with an error.
HandlerWrite(i) ==
    /\ ~crashed
    /\ hpc[i] = "run"
    /\ \E fails \in BOOLEAN :
          hout' = [hout EXCEPT ![i] =
                      [idx |-> i,
                       id |-> rstate[i].id,
                       err |-> IF fails THEN <<"action failed">> ELSE << >>,
                       response |-> IF fails THEN << >> ELSE HandlerResponse(rstate[i])]]
    /\ hpc' = [hpc EXCEPT ![i] = "send"]
    /\ UNCHANGED << termed, reactorVars, listenerVars, logs, routineVars,
                    outputVars, crashed >>

\* A send on a closed channel panics, also one that was waiting when the
\* channel was closed; the panic of a goroutine ends the process.
HandlerPanic(i) ==
    /\ ~crashed
    /\ hpc[i] = "send"
    /\ outcClosed[i]
    /\ crashed' = TRUE
    /\ UNCHANGED << termed, reactorVars, listenerVars, logs, routineVars,
                    handlerVars, outputVars >>

(***************************************************************************)
(* pipeOutput and the reactor's channel handler.                           *)
(***************************************************************************)

\* for output := range c
PipeRecv ==
    /\ ~crashed
    /\ pipeHold = NoOutput
    /\ resc # << >>
    /\ pipeHold' = Head(resc)
    /\ resc' = Tail(resc)
    /\ UNCHANGED << termed, reactorVars, listenerVars, logs, routineVars,
                    handlerVars, pipe, sent, delivered, crashed >>

\* Mutant of PipeSend: the output is dropped on the way to the pipe.
PipeSend_Loses ==
    /\ ~crashed
    /\ pipeHold # NoOutput
    /\ Len(pipe) < RescCap
    /\ pipeHold' = NoOutput
    /\ UNCHANGED << termed, reactorVars, listenerVars, logs, routineVars,
                    handlerVars, resc, pipe, sent, delivered, crashed >>

\* pipe <- output
PipeSend ==
    /\ ~crashed
    /\ pipeHold # NoOutput
    /\ Len(pipe) < RescCap
    /\ pipe' = Append(pipe, pipeHold)
    /\ pipeHold' = NoOutput
    /\ UNCHANGED << termed, reactorVars, listenerVars, logs, routineVars,
                    handlerVars, resc, sent, delivered, crashed >>

\* createErrorRespose(rid, message), when lib.Pack succeeds.
createErrorRespose(rid, message) == << rid, EmptyFrame, PackErrorReply(message) >>

\* The response the channel handler sends for an output.
ResponseOf(output) ==
    IF output.err # << >>
    THEN createErrorRespose(output.id, output.err)
    ELSE output.response

\* Mutant of ResponseHandler: every error of SendMessage is returned to the
\* reactor, not only ETERM.
ResponseHandler_ReturnsAnyError ==
    /\ ~crashed
    /\ reactorPc = "poll"
    /\ pipe # << >>
    /\ pipe' = Tail(pipe)
    /\ delivered' = [delivered EXCEPT ![Head(pipe).idx] = @ + 1]
    /\ LET output == Head(pipe)
           i == output.idx
       IN  \E packFails, sendFails \in BOOLEAN :
              IF output.err # << >> /\ packFails
              THEN /\ logs' = logs \cup { <<"error", "pack", i>> }
                   /\ UNCHANGED << reactorPc, startResult, msgcClosed, sent >>
              ELSE IF termed \/ sendFails
              THEN /\ StartReturns
                   /\ UNCHANGED << logs, sent >>
              ELSE /\ sent' = [sent EXCEPT ![i] = Append(@, ResponseOf(output))]
                   /\ UNCHANGED << reactorPc, startResult, msgcClosed, logs >>
    /\ UNCHANGED << termed, pending, rx, msgc, listenerVars, routineVars,
                    handlerVars, resc, pipeHold, crashed >>

\* The channel handler, for the output at the head of the pipe.  packFails:
\* lib.Pack fails on the error reply.  sendFails: SendMessage fails with an
\* error other than ETERM.  SendMessage fails with ETERM once the context is
\* terminated, and the handler's error ends reactor.Run.
ResponseHandler ==
    /\ ~crashed
    /\ reactorPc = "poll"
    /\ pipe # << >>
    /\ pipe' = Tail(pipe)
    /\ delivered' = [delivered EXCEPT ![Head(pipe).idx] = @ + 1]
    /\ LET output == Head(pipe)
           i == output.idx
       IN  \E packFails, sendFails \in BOOLEAN :
              IF output.err # << >> /\ packFails
              THEN /\ logs' = logs \cup { <<"error", "pack", i>> }
                   /\ UNCHANGED << reactorPc, startResult, msgcClosed, sent >>
              ELSE IF termed
              THEN /\ StartReturns
                   /\ UNCHANGED << logs, sent >>
              ELSE IF sendFails
              THEN /\ logs' = logs \cup { <<"error", "send", i>> }
                   /\ UNCHANGED << reactorPc, startResult, msgcClosed, sent >>
              ELSE /\ sent' = [sent EXCEPT ![i] = Append(@, ResponseOf(output))]
                   /\ UNCHANGED << reactorPc, startResult, msgcClosed, logs >>
    /\ UNCHANGED << termed, pending, rx, msgc, listenerVars, routineVars,
                    handlerVars, resc, pipeHold, crashed >>

\* The listener's loop body, run for a message.
Accept ==
    /\ ~crashed
    /\ listenerPc = "recv"
    /\ \E m \in Messages \cup { NilMsg } : LoopBody(m)
    /\ UNCHANGED << termed, reactorVars, listenerPc, rstate, rout, outcClosed,
                    timedOut, invoked, enq, handlerVars, outputVars, crashed >>

NextDispatch ==
    \/ Accept
    \/ \E i \in Reqs : RoutineDispatch(i)
    \/ \E i \in Reqs : RoutineRecv(i)
    \/ \E i \in Reqs : RoutineTimeout(i)
    \/ \E i \in Reqs : RoutinePut(i)
    \/ \E i \in Reqs : HandlerWrite(i)
    \/ \E i \in Reqs : HandlerPanic(i)
    \/ PipeRecv
    \/ PipeSend
    \/ ResponseHandler
    \/ Signal
    \/ ReactorExit

SpecDispatch == Init /\ [][NextDispatch]_vars

\* The scheduler runs every goroutine that can take a step; the arrival of
\* messages, of receive errors and of the signal is up to the environment.
Fairness ==
    /\ WF_vars(SocketSend)
    /\ WF_vars(ReactorExit)
    /\ WF_vars(ListenerRecv)
    /\ WF_vars(ListenerRecvClosed)

FairSpec == Spec /\ Fairness

(***************************************************************************)
(* The properties.                                                         *)
(***************************************************************************)

Accepted(i) == i <= Len(acc)

Received(k) == k <= Len(rx)

\* A well-formed request of a registered action with a payload that decodes.
Valid(msg) ==
    /\ Len(msg) >= 4
    /\ getAction(msg) \in Registry
    /\ ~UnpackFails(getPayload(msg))

\* A well-formed request of an unknown action, or with a payload that does
\* not decode.
Invalid(msg) ==
    /\ Len(msg) >= 4
    /\ \/ getAction(msg) \notin Registry
       \/ getPayload(msg) # EmptyFrame /\ UnpackFails(getPayload(msg))

\* The outputs of request i that are on their way to the reactor.
InFlight(i) ==
    { j \in 1..Len(resc) : resc[j].idx = i }
        \cup { j \in 1..Len(pipe) : pipe[j].idx = i }
        \cup (IF pipeHold.idx = i THEN {0} ELSE {})

\* The k-th message read from the socket got exactly one outbound message,
\* the reply the processor declared for a request of that message.
Answered(k) ==
    \E i \in Reqs :
        /\ Received(k)
        /\ Accepted(i)
        /\ acc[i] = rx[k]
        /\ hout[i].err = << >>
        /\ sent[i] = << hout[i].response >>

\* The k-th message read from the socket got exactly one outbound message,
\* the error reply made of the error the per-request goroutine raised.
AnsweredWithError(k) ==
    \E i \in Reqs :
        /\ Received(k)
        /\ Accepted(i)
        /\ acc[i] = rx[k]
        /\ sent[i] = << createErrorRespose(getRequestID(rx[k]), rout[i].err) >>
        /\ getAction(rx[k]) \notin Registry
             => rout[i].err = <<"Invalid action for component", Title>> \o getAction(rx[k])

\* C1: happy path.  Every valid message read from the socket eventually gets
\* exactly one outbound message, the reply its processor declared, unless the
\* server is shut down first.
C1_HappyPath ==
    \A k \in 1..MaxMsgs :
        [](Received(k) /\ Valid(rx[k]) => <>(Answered(k) \/ termed))

\* C2: at most one invocation.  The processor is started at most once for a
\* message the listener's loop body was run for.
C2_AtMostOneInvocation ==
    \A i \in Reqs : invoked[i] <= 1

\* C2 witness: the processors of two requests have been started and one has
\* delivered its output.
C2_Witness ==
    /\ \A i \in Reqs : invoked[i] = 1
    /\ \E i \in Reqs : hpc[i] = "done"

\* C3: timeout drop.  Once the select of a request took <-ctx.Done(), no
\* output of that request is or was on resc, none is on its way to the
\* reactor, and nothing was sent for it.
C3_TimeoutDrop ==
    \A i \in Reqs :
        timedOut[i] =>
            /\ enq[i] = 0
            /\ InFlight(i) = {}
            /\ sent[i] = << >>

\* C3 witness: a request timed out and its processor came to its write.
C3_Witness ==
    \E i \in Reqs : timedOut[i] /\ hpc[i] = "send" /\ hout[i] # NoOutput

\* C4: a timeout does not degrade the server.  After a request has timed out
\* the process does not fault.
C4_TimeoutHarmless ==
    (\E i \in Reqs : timedOut[i]) => ~crashed

\* C5: validation failure is answered.  Every well-formed message read from
\* the socket whose action is unknown or whose payload does not decode
\* eventually gets exactly one outbound error reply (naming the component
\* title and the action when the action is unknown), unless the server is
\* shut down first.
C5_InvalidAnswered ==
    \A k \in 1..MaxMsgs :
        [](Received(k) /\ Invalid(rx[k]) => <>(AnsweredWithError(k) \/ termed))

\* C6: no processor for an invalid request.  For a request whose action is
\* unknown or whose payload does not decode the processor is never started;
\* the goroutine has an error output to send, and has sent it once when it is
\* done.
C6_InvalidNeverInvoked ==
    \A i \in Reqs :
        Accepted(i) /\ Invalid(acc[i]) =>
            /\ invoked[i] = 0
            /\ hpc[i] = "none"
            /\ rpc[i] \in {"put", "done"} => rout[i].err # << >>
            /\ rpc[i] = "done" => enq[i] = 1

\* C6 witness: a request of an unknown action and one with a bad payload have
\* both sent their error output and returned.
C6_Witness ==
    \E i, j \in Reqs :
        /\ Accepted(i) /\ getAction(acc[i]) \notin Registry
        /\ Accepted(j) /\ getAction(acc[j]) \in Registry /\ Invalid(acc[j])
        /\ rpc[i] = "done" /\ rpc[j] = "done"

\* The first two messages read are valid requests with distinct request ids.
TwoDistinctValid ==
    /\ Len(rx) >= 2
    /\ Valid(rx[1]) /\ Valid(rx[2])
    /\ getRequestID(rx[1]) # getRequestID(rx[2])

\* C7: concurrency independence.  Two valid requests with distinct request
\* ids, read one after the other, each eventually get exactly one outbound
\* message, their own processor's reply, unless the server is shut down first.
C7_Independence ==
    [](TwoDistinctValid => <>((Answered(1) /\ Answered(2)) \/ termed))

\* C8: shutdown.  Once the context is terminated no further message is read
\* from the socket, and start() eventually returns nil.
C8_Shutdown ==
    /\ [][termed => rx' = rx]_vars
    /\ [](termed => <>(startResult = "nil"))

\* C9: dispatch never blocks the loop.  The socket handler always returns
\* after reading one message: its send on msgc completes whatever the
\* listener and the processors do.
C9_HandlerReturns ==
    [](reactorPc = "send" => <>(reactorPc = "poll"))

\* C10: malformed input is silent.  For a message that fails msg.check() no
\* goroutine is started, no processor is invoked, no output is made and
\* nothing is sent; the failure is logged.
C10_MalformedSilent ==
    \A i \in Reqs :
        Accepted(i) /\ Len(acc[i]) < 4 =>
            /\ rpc[i] = "none"
            /\ invoked[i] = 0
            /\ enq[i] = 0
            /\ InFlight(i) = {}
            /\ sent[i] = << >>
            /\ <<"critical", "check", i>> \in logs

\* C10 witness: a malformed message was dropped and the next request was
\* answered.
C10_Witness ==
    \E i, j \in Reqs :
        /\ i < j
        /\ Accepted(i) /\ acc[i] # NilMsg /\ Len(acc[i]) < 4
        /\ sent[j] # << >>

\* C11: reply addressing.  Every outbound message has the three frames
\* [peer identity, empty, serialized reply], the first being the identity
\* frame of the inbound message of its request.
C11_ReplyAddressing ==
    \A i \in Reqs :
        \A j \in 1..Len(sent[i]) :
            /\ Len(sent[i][j]) = 3
            /\ sent[i][j][1] = acc[i][1]
            /\ sent[i][j][2] = EmptyFrame

\* The goroutines of the dispatch run whenever they can take a step; the
\* arrival of messages and of the signal, the expiry of a deadline and the
\* pace of a processor are not up to the scheduler.
FairnessDispatch ==
    /\ \A i \in Reqs : WF_vars(RoutineDispatch(i))
    /\ \A i \in Reqs : WF_vars(RoutineRecv(i))
    /\ \A i \in Reqs : WF_vars(RoutinePut(i))
    /\ \A i \in Reqs : WF_vars(HandlerPanic(i))
    /\ WF_vars(PipeRecv)
    /\ WF_vars(PipeSend)
    /\ WF_vars(ResponseHandler)
    /\ WF_vars(ReactorExit)

FairSpecDispatch == SpecDispatch /\ FairnessDispatch

\* A message that fails msg.check() and still has a request id frame.
MalformedWithId(msg) == Len(msg) < 4 /\ getRequestID(msg) # EmptyFrame

\* C12, as claimed: a message that fails validation but has an extractable
\* request id is eventually answered (unless the server is shut down or has
\* died first).
C12_MalformedWithIdAnswered ==
    \A i \in Reqs :
        [](Accepted(i) /\ MalformedWithId(acc[i])
              => <>(sent[i] # << >> \/ termed \/ crashed))

\* C12, amended: a message that fails msg.check() is dropped without reply
\* also when a request id can be extracted from it: no goroutine, no output
\* and no outbound message; an outbound message is only ever sent for a
\* message that passed the check.
C12_MalformedWithIdDropped ==
    \A i \in Reqs :
        /\ Accepted(i) /\ MalformedWithId(acc[i]) =>
              /\ rpc[i] = "none"
              /\ rout[i] = NoOutput
              /\ enq[i] = 0
              /\ sent[i] = << >>
        /\ sent[i] # << >> => Len(acc[i]) >= 4

\* C12 witness: a message with a request id but no action frame was dropped,
\* and the request after it has run to its end.
C12_Witness ==
    \E i, j \in Reqs :
        /\ i < j
        /\ Accepted(i) /\ MalformedWithId(acc[i])
        /\ rpc[j] = "done"

\* The log entries of a failed reply: lib.Pack failed on the error reply, or
\* SendMessage failed with an error other than ETERM.
ReplyFailures(l) ==
    { e \in l : e[1] = "error" /\ e[2] \in {"pack", "send"} }

\* C13: per-request reply failures do not stop the reactor.  A step ends
\* reactor.Run only when the context is terminated, and a step that logs a
\* failed reply leaves the reactor polling and start() running.
C13_ReplyFailuresKeepReactor ==
    [][ /\ (reactorPc = "poll" /\ reactorPc' = "returned") => termed
        /\ ReplyFailures(logs') # ReplyFailures(logs)
              => reactorPc' = "poll" /\ startResult' = "running"
      ]_vars

\* C13 witness: an error reply failed to serialize, a send failed with an
\* error other than ETERM, and the reactor is polling.
C13_Witness ==
    /\ \E i, j \in Reqs :
          /\ <<"error", "pack", i>> \in logs
          /\ <<"error", "send", j>> \in logs
    /\ reactorPc = "poll"
    /\ ~termed

\* The message carries a schemas blob that unpacks.
CarriesSchemas(msg) ==
    /\ Len(msg) >= 5
    /\ msg[5] # EmptyFrame
    /\ ~UnpackFails(msg[5])

\* C14: idempotent schema replace.  A turn of the loop body for a message
\* that carries the blob the schemas already are the decoding of leaves the
\* schemas as they are.
C14_IdempotentSchemas ==
    [][ (/\ Len(acc') = Len(acc) + 1
         /\ CarriesSchemas(acc'[Len(acc')])
         /\ schemas = Unpacked(acc'[Len(acc')][5]))
            => schemas' = schemas
      ]_vars

\* C14 witness: the same blob came twice in a row, and the request of the
\* second message got the schemas of the blob.
C14_Witness ==
    \E i \in Reqs :
        /\ i > 1
        /\ Accepted(i)
        /\ CarriesSchemas(acc[i])
        /\ CarriesSchemas(acc[i - 1])
        /\ acc[i][5] = acc[i - 1][5]
        /\ schemas = Unpacked(acc[i][5])
        /\ rpc[i] \notin {"none", "start"}
        /\ rstate[i].schemas = Unpacked(acc[i][5])

\* The number of outputs of request i in resc, in the pipeOutput goroutine
\* and in the pipe.
InFlightCount(i) ==
    Cardinality({ j \in 1..Len(resc) : resc[j].idx = i })
        + Cardinality({ j \in 1..Len(pipe) : pipe[j].idx = i })
        + (IF pipeHold.idx = i THEN 1 ELSE 0)

\* C15: exactly-once delivery.  Every output sent on resc is on its way
\* through pipeOutput or has been handed to the channel handler, once; the
\* channel handler sends at most one message for it.
C15_ExactlyOnce ==
    \A i \in Reqs :
        /\ enq[i] = InFlightCount(i) + delivered[i]
        /\ delivered[i] <= 1
        /\ Len(sent[i]) <= delivered[i]

\* C15 witness: one output went through the pipe, was handled and answered
\* while another one is on its way.
C15_Witness ==
    \E i, j \in Reqs :
        /\ enq[i] = 1 /\ delivered[i] = 1 /\ Len(sent[i]) = 1
        /\ enq[j] = 1 /\ InFlightCount(j) = 1

\* C16: the listener handles messages until the messages channel is closed.
\* It has left its receive loop only if msgc has been closed and is empty.
C16_ListenerUntilClosed ==
    listenerPc = "exited" => msgcClosed /\ msgc = << >>

\* C17: no send on a closed result channel.  No processor is at its send on
\* outc once close(outc) has run.
C17_NoSendOnClosed ==
    \A i \in Reqs : ~(hpc[i] = "send" /\ outcClosed[i])

\* The schemas after the loop body has been run for the first k messages.
RECURSIVE SchemasAfter(_)
SchemasAfter(k) ==
    IF k = 0
    THEN << >>
    ELSE IF Len(acc[k]) >= 4 /\ CarriesSchemas(acc[k])
         THEN Unpacked(acc[k][5])
         ELSE SchemasAfter(k - 1)

\* C18: schema snapshot.  The schemas in the state of a request are the
\* schemas as they were after the messages up to and including its own.
C18_SchemaSnapshot ==
    \A i \in Reqs :
        rpc[i] \notin {"none", "start"} => rstate[i].schemas = SchemasAfter(i)

\* C19: a failed socket receive never produces a request.  The nil message
\* of a failed RecvMessageBytes is never on msgc.
C19_NoRequestOnRecvError ==
    \A j \in 1..Len(msgc) : msgc[j] # NilMsg

====
